---- MODULE Spec2Model ----
(***************************************************************************)
(* Model of iWindsurfScraper (src/iWindsurfScraper.py): the fetch cycle    *)
(* GetData, the normalisation and trimming done by OrganizeData, and the   *)
(* accumulated store self.data.                                            *)
(*                                                                         *)
(* Text is a sequence of one-character strings.  A DataFrame is a sequence *)
(* of rows in frame order; each row carries its index label.  None is the  *)
(* empty tuple <<>> and a present value v is <<v>>.                        *)
(***************************************************************************)
EXTENDS Integers, Sequences, FiniteSets, TLC

VARIABLES
    data,        \* self.data: <<>> (None) or <<frame>>
    dict,        \* self.dict: <<>> (None) or <<wind_dict>>
    hasAppend,   \* whether the installed pandas still has DataFrame.append
    calls,       \* number of GetData calls made so far
    status,      \* outcome of the last GetData call: "init", "ok" or the exception
    ret,         \* frame returned by the last call, <<>> when it raised
    prevData,    \* self.data as it was when the last call began
    prevStatus,  \* outcome of the call before the last one
    prevRet,     \* frame returned by the call before the last one
    sorted,      \* every payload normalised so far listed strictly increasing timestamps
    arg,         \* input of a pure-function run
    result,      \* output of a pure-function run
    phase        \* "store", or "ready"/"done" for a pure-function run

vars == <<data, dict, hasAppend, calls, status, ret, prevData, prevStatus,
          prevRet, sorted, arg, result, phase>>

storeVars == <<data, dict, hasAppend, calls, status, ret, prevData, prevStatus,
               prevRet, sorted>>

----------------------------------------------------------------------------
(* Text helpers *)

DigitChars == <<"0", "1", "2", "3", "4", "5", "6", "7", "8", "9">>

IsDigit(c) == \E i \in 1..10 : DigitChars[i] = c

DigitVal(c) == (CHOOSE i \in 1..10 : DigitChars[i] = c) - 1

\* Zero-padded two-digit rendering, as %02d / strftime fields produce.
TwoDigits(n) == <<DigitChars[(n \div 10) + 1], DigitChars[(n % 10) + 1]>>

FourDigits(n) == <<DigitChars[(n \div 1000) + 1], DigitChars[((n \div 100) % 10) + 1],
                   DigitChars[((n \div 10) % 10) + 1], DigitChars[(n % 10) + 1]>>

\* Python slice x[:-k].
DropLast(x, k) == IF Len(x) > k THEN SubSeq(x, 1, Len(x) - k) ELSE <<>>

----------------------------------------------------------------------------
(* datetime *)

IsLeap(y) == (y % 4 = 0) /\ ((y % 100 # 0) \/ (y % 400 = 0))

DaysInMonth(y, m) ==
    IF m = 2 THEN (IF IsLeap(y) THEN 29 ELSE 28)
    ELSE IF m \in {4, 6, 9, 11} THEN 30 ELSE 31

RECURSIVE DaysBeforeMonth(_, _)
DaysBeforeMonth(y, m) ==
    IF m = 1 THEN 0 ELSE DaysBeforeMonth(y, m - 1) + DaysInMonth(y, m - 1)

DaysBeforeYear(y) ==
    (y - 1) * 365 + ((y - 1) \div 4) - ((y - 1) \div 100) + ((y - 1) \div 400)

ToOrdinal(dt) == DaysBeforeYear(dt.year) + DaysBeforeMonth(dt.year, dt.month) + dt.day

\* datetime.weekday(): Monday is 0.
Weekday(dt) == (ToOrdinal(dt) + 6) % 7

\* Ordering of naive datetimes: field by field, most significant first.
DtFields(dt) == <<dt.year, dt.month, dt.day, dt.hour, dt.minute, dt.second>>

DtLess(a, b) ==
    \E k \in 1..6 :
        /\ DtFields(a)[k] < DtFields(b)[k]
        /\ \A j \in 1..(k - 1) : DtFields(a)[j] = DtFields(b)[j]

\* A numeric field of strptime: two digits when both are digits and the value
\* is in range, else one digit.
TwoAt(s, i) ==
    IF i + 1 <= Len(s) /\ IsDigit(s[i]) /\ IsDigit(s[i + 1])
    THEN DigitVal(s[i]) * 10 + DigitVal(s[i + 1]) ELSE -1

OneAt(s, i) == IF i <= Len(s) /\ IsDigit(s[i]) THEN DigitVal(s[i]) ELSE -1

PickField(i, two, one, lo2, hi2, lo1, hi1) ==
    IF two >= lo2 /\ two <= hi2 THEN [ok |-> TRUE, val |-> two, next |-> i + 2]
    ELSE IF one >= lo1 /\ one <= hi1 THEN [ok |-> TRUE, val |-> one, next |-> i + 1]
    ELSE [ok |-> FALSE, val |-> 0, next |-> i]

NumField(s, i, lo2, hi2, lo1, hi1) ==
    PickField(i, TwoAt(s, i), OneAt(s, i), lo2, hi2, lo1, hi1)

YearField(s, i) ==
    IF i + 3 <= Len(s) /\ \A k \in i..(i + 3) : IsDigit(s[k])
    THEN [ok |-> TRUE,
          val |-> DigitVal(s[i]) * 1000 + DigitVal(s[i + 1]) * 100
                  + DigitVal(s[i + 2]) * 10 + DigitVal(s[i + 3]),
          next |-> i + 4]
    ELSE [ok |-> FALSE, val |-> 0, next |-> i]

Lit(s, i, c) == i <= Len(s) /\ s[i] = c

RECURSIVE SkipSpaces(_, _)
SkipSpaces(s, i) == IF Lit(s, i, " ") THEN SkipSpaces(s, i + 1) ELSE i

\* The directives of '%Y-%m-%d %H:%M:%S' after %Y: the values a two-digit and a
\* one-digit match may take, and the literal that follows (a blank stands for
\* one or more spaces, "" for the end of the format).
Directives ==
    <<[lo2 |-> 0, hi2 |-> 0,  lo1 |-> 0, hi1 |-> 0, then |-> "-"],
      [lo2 |-> 1, hi2 |-> 12, lo1 |-> 1, hi1 |-> 9, then |-> "-"],
      [lo2 |-> 1, hi2 |-> 31, lo1 |-> 1, hi1 |-> 9, then |-> " "],
      [lo2 |-> 0, hi2 |-> 23, lo1 |-> 0, hi1 |-> 9, then |-> ":"],
      [lo2 |-> 0, hi2 |-> 59, lo1 |-> 0, hi1 |-> 9, then |-> ":"],
      [lo2 |-> 0, hi2 |-> 61, lo1 |-> 0, hi1 |-> 9, then |-> ""]>>

\* Position after the literal that follows directive k, 0 when it is not there.
AfterLiteral(s, i, k) ==
    IF Directives[k].then = "" THEN i
    ELSE IF ~Lit(s, i, Directives[k].then) THEN 0
    ELSE IF Directives[k].then = " " THEN SkipSpaces(s, i) ELSE i + 1

\* Directive k at position i: year, or a one- or two-digit number.
FieldAt(s, i, k) ==
    IF k = 1 THEN YearField(s, i)
    ELSE NumField(s, i, Directives[k].lo2, Directives[k].hi2,
                  Directives[k].lo1, Directives[k].hi1)

Cons(v, rest) == IF rest = <<>> THEN <<>> ELSE <<v>> \o rest

\* The values of directives k..6 matched from position i to the end of s, <<>>
\* when the text does not match the format.  f is directive k's match and j the
\* position after the literal that follows it.
RECURSIVE ParseFields(_, _, _)
RECURSIVE ParseRest(_, _, _, _)
ParseFields(s, i, k) == ParseRest(s, k, FieldAt(s, i, k), AfterLiteral(s, FieldAt(s, i, k).next, k))

ParseRest(s, k, f, j) ==
    IF ~f.ok \/ j = 0 THEN <<>>
    ELSE IF k = 6 THEN (IF j = Len(s) + 1 THEN <<f.val>> ELSE <<>>)
    ELSE Cons(f.val, ParseFields(s, j, k + 1))

\* The datetime constructor on the matched values.
MakeDatetime(v) ==
    IF v = <<>> THEN <<>>
    ELSE IF v[1] < 1 \/ v[3] > DaysInMonth(v[1], v[2]) \/ v[6] > 59 THEN <<>>
    ELSE <<[year |-> v[1], month |-> v[2], day |-> v[3],
            hour |-> v[4], minute |-> v[5], second |-> v[6]]>>

\* datetime.datetime.strptime(s, '%Y-%m-%d %H:%M:%S'): <<dt>> or <<>> (ValueError).
Strptime(s) == MakeDatetime(ParseFields(s, 1, 1))

\* x.strftime("%I%p")
StrftimeIp(dt) ==
    TwoDigits(IF dt.hour % 12 = 0 THEN 12 ELSE dt.hour % 12)
        \o (IF dt.hour < 12 THEN <<"A", "M">> ELSE <<"P", "M">>)

\* Variant: the first character is removed whatever it is.
StripAlways(x) == Tail(x)

\* Remove leading 0 if necessary
StripLeadingZero(x) == IF x[1] = "0" THEN Tail(x) ELSE x

----------------------------------------------------------------------------
(* Class constants *)

LOCATION_LOOKUP ==
    [n \in {"3Rd Ave Channel", "Anita Rock-Crissy Field", "Palo Alto", "Coyote Point"} |->
        CASE n = "3Rd Ave Channel" -> 1374
          [] n = "Anita Rock-Crissy Field" -> 411
          [] n = "Palo Alto" -> 425
          [] n = "Coyote Point" -> 408]

\* inv_map = {v: k for k, v in self.LOCATION_LOOKUP.items()}
inv_map ==
    [v \in {LOCATION_LOOKUP[k] : k \in DOMAIN LOCATION_LOOKUP} |->
        CHOOSE k \in DOMAIN LOCATION_LOOKUP : LOCATION_LOOKUP[k] = v]

weekdays == <<"Monday", "Tuesday", "Wednesday", "Thursday", "Friday", "Saturday", "Sunday">>

----------------------------------------------------------------------------
(* OrganizeData *)

Range(f) == {f[i] : i \in DOMAIN f}

\* np.unique over weekday names: the distinct names in sorted (alphabetical) order.
NpUnique(names) ==
    SelectSeq(<<"Friday", "Monday", "Saturday", "Sunday", "Thursday", "Tuesday", "Wednesday">>,
              LAMBDA w : w \in Range(names))

\* One normalised row of df_wind; index is the frame's RangeIndex label.
Row(i, location, t, speed) ==
    [index     |-> i - 1,
     Location  |-> location,
     DateTime  |-> t,
     Weekday   |-> weekdays[Weekday(t) + 1],
     Hour      |-> StripLeadingZero(StrftimeIp(t)),
     WindSpeed |-> speed]

NormalizeRow(i, x, location) ==
    Row(i, location, Strptime(DropLast(x.model_time_local, 5))[1], x.wind_speed)

\* Variant: values[-1] in place of values[0].
DayFirstLast(df_temp) == df_temp[Len(df_temp)].DateTime

\* day_first = df_temp['DateTime'].astype('object').values[0]
DayFirst(df_temp) == df_temp[1].DateTime

\* Variant: .hour compared in place of .day.
DayDiffersHour(row, day_first) == row.DateTime.hour # day_first.hour

\* The rows the inner loop does not skip with `continue`.
DayDiffers(row, day_first) == row.DateTime.day # day_first.day

IndexLabels(rows) == [k \in 1..Len(rows) |-> rows[k].index]

\* The index labels one weekday's df_temp adds to indices.
IndicesOf(df_temp) ==
    IndexLabels(SelectSeq(df_temp, LAMBDA r : DayDiffers(r, DayFirst(df_temp))))

\* indices collected by the loops over np.unique(df_wind['Weekday']).
RECURSIVE TrimIndices(_, _)
TrimIndices(df_wind, wds) ==
    IF wds = <<>> THEN <<>>
    ELSE IndicesOf(SelectSeq(df_wind, LAMBDA r : r.Weekday = Head(wds)))
            \o TrimIndices(df_wind, Tail(wds))

\* df_wind.drop(index=indices, inplace=True)
DropIndex(df_wind, indices) == SelectSeq(df_wind, LAMBDA r : r.index \notin Range(indices))

WeekdayColumn(df_wind) == [i \in 1..Len(df_wind) |-> df_wind[i].Weekday]

\* Lines 129-141 on the frame built at lines 123-127.
Trim(df_wind) == DropIndex(df_wind, TrimIndices(df_wind, NpUnique(WeekdayColumn(df_wind))))

\* df_wind as built at lines 123-127.
BuildFrame(md, location) == [i \in 1..Len(md) |-> NormalizeRow(i, md[i], location)]

Raised(kind) == [status |-> kind, df |-> <<>>]

\* Lines 108-117 on the list wind_dict['model_data'].
Unparsed(md) ==
    IF \E i \in 1..Len(md) : "model_time_local" \notin DOMAIN md[i] THEN "KeyError"
    ELSE IF \E i \in 1..Len(md) : "wind_speed" \notin DOMAIN md[i] THEN "KeyError"
    ELSE IF \E i \in 1..Len(md) : Strptime(DropLast(md[i].model_time_local, 5)) = <<>>
         THEN "ValueError"
    ELSE "ok"

OrganizeData(wind_dict) ==
    IF "model_data" \notin DOMAIN wind_dict THEN Raised("KeyError")
    ELSE IF Unparsed(wind_dict.model_data) # "ok" THEN Raised(Unparsed(wind_dict.model_data))
    ELSE IF "spot_id" \notin DOMAIN wind_dict THEN Raised("KeyError")
    ELSE IF wind_dict.spot_id \notin DOMAIN inv_map THEN Raised("KeyError")
    ELSE [status |-> "ok",
          df |-> Trim(BuildFrame(wind_dict.model_data, inv_map[wind_dict.spot_id]))]

----------------------------------------------------------------------------
(* Provider payloads offered to the model *)

MaxSeries == 3

Dt(y, m, d, h) == [year |-> y, month |-> m, day |-> d, hour |-> h, minute |-> 0, second |-> 0]

\* "YYYY-MM-DD HH:MM:SS" followed by a timezone suffix, as the provider emits it.
ProviderTime(dt, suffix) ==
    FourDigits(dt.year) \o <<"-">> \o TwoDigits(dt.month) \o <<"-">> \o TwoDigits(dt.day)
        \o <<" ">> \o TwoDigits(dt.hour) \o <<":">> \o TwoDigits(dt.minute)
        \o <<":">> \o TwoDigits(dt.second) \o suffix

Suffix5 == <<"-", "0", "8", "0", "0">>

Suffix3 == <<"-", "0", "8">>

\* Mon 2024-03-04, Thu 2024-03-07, Mon 2024-03-11, Mon 2021-02-01, Mon 2021-03-01
Days == {<<2024, 3, 4>>, <<2024, 3, 7>>, <<2024, 3, 11>>, <<2021, 2, 1>>, <<2021, 3, 1>>}

SeriesTimes == {Dt(d[1], d[2], d[3], h) : d \in Days, h \in {0, 9}}

SeqsUpTo(S, n) == UNION {[1..k -> S] : k \in 0..n}

Payload(spot, times, suffix) ==
    [spot_id |-> spot,
     model_data |-> [i \in 1..Len(times) |->
                        [model_time_local |-> ProviderTime(times[i], suffix), wind_speed |-> i]]]

\* Monday 2024-03-04 00:00 hourly through Monday 2024-03-11 02:00: 24 records on
\* the first Monday, 3 on the second.
MondaySeries == Payload(425, [k \in 1..171 |-> Dt(2024, 3, 4 + ((k - 1) \div 24), (k - 1) % 24)], Suffix5)

Defective ==
    {[spot_id |-> 425],
     [model_data |-> <<>>],
     [spot_id |-> 999, model_data |-> <<>>],
     [spot_id |-> 425, model_data |-> <<[wind_speed |-> 1]>>],
     [spot_id |-> 425, model_data |-> <<[model_time_local |-> ProviderTime(Dt(2024, 3, 4, 0), Suffix5)]>>]}

OrganizeInputs ==
    {Payload(425, t, Suffix5) : t \in SeqsUpTo(SeriesTimes, MaxSeries)}
    \cup {Payload(425, <<Dt(d[1], d[2], d[3], h)>>, sfx) : d \in Days, h \in 0..23, sfx \in {Suffix5, Suffix3}}
    \cup {MondaySeries}
    \cup Defective

StoreIdle ==
    /\ data = <<>> /\ dict = <<>> /\ hasAppend = TRUE /\ calls = 0
    /\ status = "init" /\ ret = <<>> /\ prevData = <<>>
    /\ prevStatus = "init" /\ prevRet = <<>> /\ sorted = TRUE

InitOrganize ==
    /\ StoreIdle
    /\ arg \in OrganizeInputs
    /\ result = Raised("init")
    /\ phase = "ready"

Organize ==
    /\ phase = "ready"
    /\ result' = OrganizeData(arg)
    /\ phase' = "done"
    /\ UNCHANGED <<storeVars, arg>>

NextOrganize == Organize

SpecOrganize == InitOrganize /\ [][NextOrganize]_vars

----------------------------------------------------------------------------
(* Properties of OrganizeData, checked under SpecOrganize *)

Organized == phase = "done" /\ result.status = "ok"

SameWeekdayPairs(df) == {p \in (1..Len(df)) \X (1..Len(df)) : df[p[1]].Weekday = df[p[2]].Weekday}

\* C6 (as amended): in the series OrganizeData returns, all records that share
\* a weekday label share the same day-of-month.
C6_SameDayOfMonthPerWeekday ==
    Organized =>
        \A p \in SameWeekdayPairs(result.df) :
            result.df[p[1]].DateTime.day = result.df[p[2]].DateTime.day

\* C6 (as stated): additionally, no weekday label spans two different real
\* dates within one trimmed series.
C6_OneRealDatePerWeekday ==
    Organized =>
        \A p \in SameWeekdayPairs(result.df) :
            /\ result.df[p[1]].DateTime.day = result.df[p[2]].DateTime.day
            /\ result.df[p[1]].DateTime.month = result.df[p[2]].DateTime.month
            /\ result.df[p[1]].DateTime.year = result.df[p[2]].DateTime.year

\* A series crossing a month boundary from which a record was trimmed and in
\* which two surviving records share a weekday label.
C6_Witness ==
    /\ Organized
    /\ Len(result.df) < Len(arg.model_data)
    /\ \E p \in SameWeekdayPairs(result.df) :
          result.df[p[1]].DateTime.month # result.df[p[2]].DateTime.month

OneRecord(text) ==
    [spot_id |-> 425, model_data |-> <<[model_time_local |-> text, wind_speed |-> 1]>>]

Text0900 == <<"2", "0", "2", "4", "-", "0", "3", "-", "0", "7", " ",
              "0", "9", ":", "0", "0", ":", "0", "0">>

Text0000 == <<"2", "0", "2", "4", "-", "0", "3", "-", "0", "7", " ",
              "0", "0", ":", "0", "0", ":", "0", "0">>

Text1200 == <<"2", "0", "2", "4", "-", "0", "3", "-", "0", "7", " ",
              "1", "2", ":", "0", "0", ":", "0", "0">>

NormalizesTo(text, h, label) ==
    arg = OneRecord(text) =>
        /\ result.status = "ok"
        /\ Len(result.df) = 1
        /\ result.df[1].DateTime = Dt(2024, 3, 7, h)
        /\ result.df[1].Weekday = "Thursday"
        /\ result.df[1].Hour = label

\* C8 (as stated): the texts "2024-03-07 09:00:00-08", "2024-03-07 00:00:00-08"
\* and "2024-03-07 12:00:00-08" normalise to 2024-03-07T09:00:00 / Thursday /
\* "9AM", to "12AM" and to "12PM".
C8_ThreeCharSuffixNormalizes ==
    phase = "done" =>
        /\ NormalizesTo(Text0900 \o <<"-", "0", "8">>, 9, <<"9", "A", "M">>)
        /\ NormalizesTo(Text0000 \o <<"-", "0", "8">>, 0, <<"1", "2", "A", "M">>)
        /\ NormalizesTo(Text1200 \o <<"-", "0", "8">>, 12, <<"1", "2", "P", "M">>)

\* C8 (as amended): with a five-character timezone suffix, "2024-03-07
\* 09:00:00-0800" normalises to 2024-03-07T09:00:00 / Thursday / "9AM",
\* "2024-03-07 00:00:00-0800" to "12AM" and "2024-03-07 12:00:00-0800" to
\* "12PM"; the last 5 characters are dropped before parsing, so the same texts
\* with the three-character suffix "-08" raise ValueError.
C8_FiveCharSuffixNormalizes ==
    phase = "done" =>
        /\ NormalizesTo(Text0900 \o <<"-", "0", "8", "0", "0">>, 9, <<"9", "A", "M">>)
        /\ NormalizesTo(Text0000 \o <<"-", "0", "8", "0", "0">>, 0, <<"1", "2", "A", "M">>)
        /\ NormalizesTo(Text1200 \o <<"-", "0", "8", "0", "0">>, 12, <<"1", "2", "P", "M">>)
        /\ \A t \in {Text0900, Text0000, Text1200} :
              arg = OneRecord(t \o <<"-", "0", "8">>) => result.status = "ValueError"

C8_Witness ==
    /\ Organized
    /\ arg = OneRecord(Text0900 \o <<"-", "0", "8", "0", "0">>)
    /\ result.df[1].Hour = <<"9", "A", "M">>

\* The normalised records of a payload before trimming.
NormalizedRows(wind_dict) == BuildFrame(wind_dict.model_data, inv_map[wind_dict.spot_id])

FirstWithWeekday(rows, w) ==
    rows[CHOOSE i \in 1..Len(rows) :
            rows[i].Weekday = w /\ \A j \in 1..(i - 1) : rows[j].Weekday # w]

TrimRule(rows) ==
    SelectSeq(rows, LAMBDA r : r.DateTime.day = FirstWithWeekday(rows, r.Weekday).DateTime.day)

\* C10: the series OrganizeData returns is exactly the subsequence, in input
\* order, of the normalised records whose day-of-month equals that of the first
\* record with the same weekday label; for the Monday-to-Monday series (24
\* records on the first Monday, 3 on the second) exactly the last 3 are removed.
C10_TrimmingRule ==
    Organized =>
        /\ result.df = TrimRule(NormalizedRows(arg))
        /\ arg = MondaySeries => result.df = SubSeq(NormalizedRows(arg), 1, 168)

C10_Witness ==
    /\ Organized
    /\ arg = MondaySeries
    /\ Len(result.df) = 168
    /\ Cardinality({i \in 1..168 : result.df[i].DateTime.day = 4}) = 24

----------------------------------------------------------------------------
(* Payload extraction, GetData lines 77-79 *)

\* The response text is modelled over an alphabet of JSON tokens that hold no
\* brace themselves: "k" is a quoted key with its colon, "1" a scalar value and
\* "(" a character of the callback padding.  None of them is markup, so
\* soup.text is the response text.
TextAlphabet == {"{", "}", "k", "1", ",", "("}

MaxText == 6

\* str.index(c) as a 0-based offset, -1 standing for the ValueError it raises.
RECURSIVE Find(_, _, _)
Find(s, c, i) ==
    IF i > Len(s) THEN -1 ELSE IF s[i] = c THEN i - 1 ELSE Find(s, c, i + 1)

\* str.rfind(c): 0-based offset of the last occurrence, -1 when there is none.
RECURSIVE Rfind(_, _, _)
Rfind(s, c, i) ==
    IF i < 1 THEN -1 ELSE IF s[i] = c THEN i - 1 ELSE Rfind(s, c, i - 1)

\* Variant: the first occurrence in place of the last.
FindBrace(s, c) == Find(s, c, 1)

\* soup_text.rfind('}')
RfindBrace(s, c) == Rfind(s, c, Len(s))

\* Python slice s[a:b] for 0 <= a, 0 <= b.
Slice(s, a, b) == IF b > a THEN SubSeq(s, a + 1, IF b > Len(s) THEN Len(s) ELSE b) ELSE <<>>

\* json.loads on the token alphabet: the position after the value that starts
\* at i, or 0 when there is no value there.
RECURSIVE ParseValue(_, _)
RECURSIVE ParseMembers(_, _)
RECURSIVE AfterMember(_, _)
ParseValue(s, i) ==
    IF Lit(s, i, "1") THEN i + 1
    ELSE IF Lit(s, i, "{")
         THEN (IF Lit(s, i + 1, "}") THEN i + 2 ELSE ParseMembers(s, i + 1))
         ELSE 0

ParseMembers(s, i) ==
    IF ~Lit(s, i, "k") THEN 0 ELSE AfterMember(s, ParseValue(s, i + 1))

\* v is the position after a member's value.
AfterMember(s, v) ==
    IF v = 0 THEN 0
    ELSE IF Lit(s, v, "}") THEN v + 1
    ELSE IF Lit(s, v, ",") THEN ParseMembers(s, v + 1)
    ELSE 0

\* json.loads(text) succeeds iff the whole text is one JSON value.
JsonValid(s) == ParseValue(s, 1) = Len(s) + 1

\* json.loads(soup_text[start_idx:end_idx]); denotes is the object the JSON
\* document stands for, which json.loads returns when the slice parses.
LoadSlice(sliced, denotes) ==
    IF ~JsonValid(sliced) THEN [status |-> "ValueError", parsed |-> sliced, obj |-> <<>>]
    ELSE [status |-> "ok", parsed |-> sliced, obj |-> <<denotes>>]

\* Lines 77-79.  response.soup_text is the text and response.denotes the
\* object its JSON document stands for.
ExtractPayload(response) ==
    IF Find(response.soup_text, "{", 1) = -1
    THEN [status |-> "ValueError", parsed |-> <<>>, obj |-> <<>>]
    ELSE LoadSlice(Slice(response.soup_text,
                         Find(response.soup_text, "{", 1),
                         RfindBrace(response.soup_text, "}") + 1),
                   response.denotes)

ExtractInputs == {[soup_text |-> t, denotes |-> [spot_id |-> 425, model_data |-> <<>>]] :
                     t \in SeqsUpTo(TextAlphabet, MaxText)}

InitExtract ==
    /\ StoreIdle
    /\ arg \in ExtractInputs
    /\ result = [status |-> "init", parsed |-> <<>>, obj |-> <<>>]
    /\ phase = "ready"

Extract ==
    /\ phase = "ready"
    /\ result' = ExtractPayload(arg)
    /\ phase' = "done"
    /\ UNCHANGED <<storeVars, arg>>

NextExtract == Extract

SpecExtract == InitExtract /\ [][NextExtract]_vars

Positions(s, c) == {i \in 1..Len(s) : s[i] = c}

FirstPos(s, c) == CHOOSE i \in Positions(s, c) : \A j \in Positions(s, c) : i <= j

LastPos(s, c) == CHOOSE i \in Positions(s, c) : \A j \in Positions(s, c) : j <= i

\* C9: extraction parses exactly the substring from the first '{' to the last
\* '}' inclusive, and fails whenever the text has no '{', has no '}', or its
\* last '}' comes before its first '{'.
C9_ExtractFirstToLastBrace ==
    phase = "done" =>
        LET t == arg.soup_text IN
        /\ result.status = "ok" =>
              /\ Positions(t, "{") # {} /\ Positions(t, "}") # {}
              /\ result.parsed = SubSeq(t, FirstPos(t, "{"), LastPos(t, "}"))
              /\ result.obj = <<arg.denotes>>
        /\ (\/ Positions(t, "{") = {}
            \/ Positions(t, "}") = {}
            \/ LastPos(t, "}") < FirstPos(t, "{")) =>
              result.status = "ValueError" /\ result.obj = <<>>

\* A padded envelope around a nested object was extracted.
C9_Witness ==
    /\ phase = "done" /\ result.status = "ok"
    /\ Len(result.parsed) < Len(arg.soup_text)
    /\ Cardinality(Positions(result.parsed, "}")) > 1

----------------------------------------------------------------------------
(* GetData and the store *)

MaxRecords == 2

MaxCalls == 2

LocationInputs == {"palo alto", "Coyote Point", "nowhere"}

\* location.title() on the names offered to GetData.
Title(location) ==
    CASE location = "palo alto" -> "Palo Alto"
      [] location = "Coyote Point" -> "Coyote Point"
      [] location = "nowhere" -> "Nowhere"

SameKey(a, b) == a.Location = b.Location /\ a.DateTime = b.DateTime

Reindex(rows) ==
    [i \in 1..Len(rows) |->
        [index |-> i - 1, Location |-> rows[i].Location, DateTime |-> rows[i].DateTime,
         Weekday |-> rows[i].Weekday, Hour |-> rows[i].Hour, WindSpeed |-> rows[i].WindSpeed]]

RECURSIVE KeepLast(_, _)
KeepLast(df, i) ==
    IF i > Len(df) THEN <<>>
    ELSE IF \E j \in (i + 1)..Len(df) : SameKey(df[i], df[j]) THEN KeepLast(df, i + 1)
    ELSE <<df[i]>> \o KeepLast(df, i + 1)

\* drop_duplicates(subset=['Location', 'DateTime'], keep='last', inplace=True,
\*                 ignore_index=True)
DropDuplicates(df) == Reindex(KeepLast(df, 1))

\* Variant: the appended frame is assigned back to self.data.
AppendAssigned(self_data, df_wind) == self_data \o df_wind

\* self.data.append(df_wind): DataFrame.append returns a new frame, which the
\* statement does not assign; self.data is the frame it was.
AppendStatement(self_data, df_wind) == self_data

\* Variant: the store is cleared before the fetch.
StoreOnRaiseReset(self_data) == <<>>

\* self.data when an exception leaves GetData: nothing assigns it before line 85.
StoreOnRaise(self_data) == self_data

Ascending(rows) ==
    \A i \in 1..(Len(rows) - 1) : DtLess(rows[i].DateTime, rows[i + 1].DateTime)

StrictlyIncreasing(wind_dict) == Ascending(NormalizedRows(wind_dict))

\* Mon 2024-03-04 00:00 (speeds 10 and 12) and 09:00
StoreRecords ==
    {[t |-> Dt(2024, 3, 4, 0), v |-> 10], [t |-> Dt(2024, 3, 4, 0), v |-> 12],
     [t |-> Dt(2024, 3, 4, 9), v |-> 10]}

StorePayload(spot, recs, suffix) ==
    [spot_id |-> spot,
     model_data |-> [i \in 1..Len(recs) |->
                        [model_time_local |-> ProviderTime(recs[i].t, suffix),
                         wind_speed |-> recs[i].v]]]

GoodText == <<"(", "{", "k", "1", "}">>

BadTexts == {<<"(", "k", "1">>, <<"}", "(", "{">>, <<"(", "{", "k", "}">>, <<"{", "k", "1">>}

OneRec == <<[t |-> Dt(2024, 3, 4, 0), v |-> 10]>>

Responses(location) ==
    IF Title(location) \notin DOMAIN LOCATION_LOOKUP
    THEN {[soup_text |-> <<>>, denotes |-> [spot_id |-> 0]]}
    ELSE LET spot == LOCATION_LOOKUP[Title(location)] IN
         {[soup_text |-> GoodText, denotes |-> StorePayload(spot, recs, Suffix5)] :
              recs \in SeqsUpTo(StoreRecords, MaxRecords)}
         \cup {[soup_text |-> GoodText, denotes |-> d] :
                  d \in {StorePayload(999, OneRec, Suffix5),
                         StorePayload(spot, OneRec, Suffix3),
                         [spot_id |-> spot],
                         [model_data |-> <<>>],
                         [spot_id |-> spot, model_data |-> <<[wind_speed |-> 10]>>],
                         [spot_id |-> spot,
                          model_data |-> <<[model_time_local |-> ProviderTime(Dt(2024, 3, 4, 0), Suffix5)]>>]}}
         \cup {[soup_text |-> b, denotes |-> StorePayload(spot, OneRec, Suffix5)] : b \in BadTexts}

\* The responses and payloads offered, and OrganizeData on each of them,
\* evaluated once.
ResponsesOf == [location \in LocationInputs |-> Responses(location)]

StorePayloads == {r.denotes : r \in UNION {ResponsesOf[l] : l \in LocationInputs}}

OrganizedOf == [p \in StorePayloads |-> OrganizeData(p)]

IncreasingOf ==
    [p \in StorePayloads |-> IF OrganizeData(p).status = "ok" THEN StrictlyIncreasing(p) ELSE TRUE]

\* GetData when it raises: self.data and self.dict as given, nothing returned.
Failure(self_data, self_dict, kind, increasing) ==
    [data |-> StoreOnRaise(self_data), dict |-> self_dict, status |-> kind,
     ret |-> <<>>, increasing |-> increasing]

\* Lines 82-93: organized is what OrganizeData gave for wind_dict.
Accumulate(self_data, wind_dict, organized, increasing, pandasAppend) ==
    IF organized.status # "ok"
    THEN Failure(self_data, <<wind_dict>>, organized.status, TRUE)
    ELSE IF self_data = <<>>
    THEN [data |-> <<organized.df>>, dict |-> <<wind_dict>>, status |-> "ok",
          ret |-> <<organized.df>>, increasing |-> increasing]
    ELSE IF ~pandasAppend
    THEN Failure(self_data, <<wind_dict>>, "AttributeError", increasing)
    ELSE [data |-> <<DropDuplicates(AppendStatement(self_data[1], organized.df))>>,
          dict |-> <<wind_dict>>, status |-> "ok",
          ret |-> <<organized.df>>, increasing |-> increasing]

\* Lines 77-82: extracted is the outcome of the payload extraction.
Normalise(self_data, self_dict, extracted, pandasAppend) ==
    IF extracted.status # "ok"
    THEN Failure(self_data, self_dict, extracted.status, TRUE)
    ELSE Accumulate(self_data, extracted.obj[1], OrganizedOf[extracted.obj[1]],
                    IncreasingOf[extracted.obj[1]], pandasAppend)

\* One call of GetData: the values of self.data and self.dict after it, the
\* exception it raised ("ok" for none), the frame it returned, and whether the
\* payload it normalised listed strictly increasing timestamps.
GetDataOutcome(self_data, self_dict, location, response, pandasAppend) ==
    IF Title(location) \notin DOMAIN LOCATION_LOOKUP
    THEN Failure(self_data, self_dict, "KeyError", TRUE)
    ELSE Normalise(self_data, self_dict, ExtractPayload(response), pandasAppend)

Init ==
    /\ data = <<>>
    /\ dict = <<>>
    /\ hasAppend \in BOOLEAN
    /\ calls = 0
    /\ status = "init"
    /\ ret = <<>>
    /\ prevData = <<>>
    /\ prevStatus = "init"
    /\ prevRet = <<>>
    /\ sorted = TRUE
    /\ arg = <<>>
    /\ result = <<>>
    /\ phase = "store"

\* The state after a call with outcome o.
Commit(o) ==
    /\ data' = o.data
    /\ dict' = o.dict
    /\ status' = o.status
    /\ ret' = o.ret
    /\ sorted' = (sorted /\ o.increasing)

GetData ==
    /\ phase = "store"
    /\ calls < MaxCalls
    /\ calls' = calls + 1
    /\ \E location \in LocationInputs :
         \E response \in ResponsesOf[location] :
            Commit(GetDataOutcome(data, dict, location, response, hasAppend))
    /\ prevData' = data
    /\ prevStatus' = status
    /\ prevRet' = ret
    /\ UNCHANGED <<hasAppend, arg, result, phase>>

Next == GetData

Spec == Init /\ [][Next]_vars

----------------------------------------------------------------------------
(* Properties of the store, checked under Spec *)

\* The records of a frame without their index labels.
Records(df) ==
    [i \in 1..Len(df) |->
        [Location |-> df[i].Location, DateTime |-> df[i].DateTime, Weekday |-> df[i].Weekday,
         Hour |-> df[i].Hour, WindSpeed |-> df[i].WindSpeed]]

\* The frame held in an optional value, empty for None.
Frame(opt) == IF opt = <<>> THEN <<>> ELSE opt[1]

Matching(df, r) == {k \in 1..Len(df) : SameKey(df[k], r)}

TwoSuccessfulCycles == status = "ok" /\ prevStatus = "ok"

\* C1: when two successful cycles yield a record for the same location and
\* timestamp, the store after the second holds exactly one record with that
\* key, carrying the second cycle's wind speed.
C1_LastWriteWins ==
    TwoSuccessfulCycles =>
        \A i \in 1..Len(Frame(ret)) :
            (/\ Matching(Frame(prevRet), Frame(ret)[i]) # {}
             /\ \A j \in Matching(Frame(ret), Frame(ret)[i]) : j <= i)
            => /\ Cardinality(Matching(Frame(data), Frame(ret)[i])) = 1
               /\ \A k \in Matching(Frame(data), Frame(ret)[i]) :
                     Frame(data)[k].WindSpeed = Frame(ret)[i].WindSpeed

\* C2: after a successful cycle for a location the store held no record of,
\* every record of the returned series is in the store.
C2_NewLocationInserted ==
    (/\ status = "ok"
     /\ \A i \in 1..Len(Frame(ret)) : \A k \in 1..Len(Frame(prevData)) :
            Frame(prevData)[k].Location # Frame(ret)[i].Location)
    => Range(Records(Frame(ret))) \subseteq Range(Records(Frame(data)))

\* C3: after every successful cycle the store holds at most one record for each
\* (location, timestamp) pair.
C3_StoreUnique ==
    status = "ok" =>
        \A i, j \in 1..Len(Frame(data)) :
            SameKey(Frame(data)[i], Frame(data)[j]) => i = j

\* C4: when every payload listed its records with strictly increasing
\* timestamps, the store's records of each location are in strictly ascending
\* timestamp order.
C4_AscendingPerLocation ==
    sorted =>
        \A i, j \in 1..Len(Frame(data)) :
            (i < j /\ Frame(data)[i].Location = Frame(data)[j].Location)
            => DtLess(Frame(data)[i].DateTime, Frame(data)[j].DateTime)

\* Two successful cycles with different, overlapping windows, the store holding
\* more than one record.
C4_Witness ==
    /\ TwoSuccessfulCycles /\ sorted
    /\ Len(Frame(data)) >= 2
    /\ Frame(ret) # Frame(prevRet)
    /\ \E i \in 1..Len(Frame(ret)) : Matching(Frame(prevRet), Frame(ret)[i]) # {}

\* C5: a cycle that raises leaves the store exactly as it was when the cycle
\* began and returns nothing.
C5_AtomicFailure ==
    status \notin {"init", "ok"} => (data = prevData /\ ret = <<>>)

\* A cycle failed on an unknown spot_id while the store held records.
C5_Witness ==
    /\ status = "KeyError"
    /\ Len(Frame(data)) > 0
    /\ data = prevData
    /\ dict # <<>>
    /\ "spot_id" \in DOMAIN dict[1]
    /\ dict[1].spot_id \notin DOMAIN inv_map

\* C7: when two consecutive successful cycles produce identical trimmed series,
\* the records of the store and their order are the same after the second as
\* after the first.
C7_MergeIdempotent ==
    (TwoSuccessfulCycles /\ Records(Frame(ret)) = Records(Frame(prevRet)))
    => Records(Frame(data)) = Records(Frame(prevData))

====
